---- MODULE Spec2Model ----
(***************************************************************************)
(* A model of the portfolio page script: on DOMContentLoaded the page      *)
(* starts two loaders, fetchRepos (GitHub repository list) and             *)
(* fetchOrcidWorks (ORCID publications).  The repository ships three       *)
(* revisions of fetchOrcidWorks: the public-record XML loader, the chained *)
(* loader (JSON API first, profile HTML second) and the API-only loader.   *)
(* Every action below is one event-loop job of the script: the synchronous *)
(* run of a handler up to its next await / promise boundary.               *)
(***************************************************************************)
EXTENDS Integers, Sequences, FiniteSets, TLC

VARIABLES
    variant,        \* the script the page loads: a revision, or a file as stored
    repoPc,         \* position of the fetchRepos promise chain
    repoStatus,     \* what fetch() settled with for the repository request
    repoBody,       \* the body of the repository response, once read
    dom,            \* the children of each container element, by element id
    repoRequests,   \* requests issued by fetchRepos so far
    repoInFlight,   \* requests of fetchRepos not yet settled
    papersPc,       \* position of the fetchOrcidWorks coroutine
    firstStatus,    \* what the first publication request settled with
    firstBody,      \* the body of the first publication response
    secondStatus,   \* what the second (profile HTML) request settled with
    secondBody,     \* the body of the second publication response
    papersScratch,  \* records the running map() had produced when it ended
    papersRequests, \* requests issued by fetchOrcidWorks so far
    papersInFlight  \* requests of fetchOrcidWorks not yet settled

repoVars == <<repoPc, repoStatus, repoBody, repoRequests, repoInFlight>>
papersVars == <<papersPc, firstStatus, firstBody, secondStatus, secondBody,
                papersScratch, papersRequests, papersInFlight>>
vars == <<variant, dom, repoVars, papersVars>>

(***************************************************************************)
(* Bounds of the model.                                                    *)
(***************************************************************************)
MaxRepos == 3       \* longest repository array of the repository-only runs
MaxDate == 2        \* valid updated_at timestamps are 1..MaxDate
MaxGroups == 2      \* longest work list of the publication-only runs
PageRepos == 1      \* longest repository array of the interleaved page runs
PartialRepos == 2   \* longest repository array of the runs that fail part-way
PageWorks == 2      \* longest work list of the interleaved page runs
PageBlocks == 1     \* most ld+json script blocks of the interleaved page runs
MaxBlocks == 2      \* most ld+json script blocks of a profile page
MaxItems == 1       \* most entries of one ld+json array
MaxIds == 3         \* most external identifiers of one work
MaxLdBlocks == 2    \* script blocks of a profile page, for the JSON-LD scan
MaxLdItems == 2     \* entries of one JSON-LD array block

(***************************************************************************)
(* JSON values.                                                            *)
(***************************************************************************)
Null == [t |-> "null"]
Str(s) == [t |-> "string", v |-> s]
Num(n) == [t |-> "number", v |-> n]
Missing == [t |-> "undefined"]

\* JavaScript truthiness of a JSON scalar or undefined.
Truthy(x) == CASE x.t = "null" -> FALSE
               [] x.t = "undefined" -> FALSE
               [] x.t = "string" -> x.v # ""
               [] x.t = "number" -> x.v # 0
               [] OTHER -> TRUE

\* String(n) of a natural number, and the text a template literal gives a
\* string or a number.
RECURSIVE NumText(_)
NumText(n) ==
    IF n < 10 THEN SubSeq("0123456789", n + 1, n + 1)
    ELSE NumText(n \div 10) \o SubSeq("0123456789", (n % 10) + 1, (n % 10) + 1)

Text(x) == IF x.t = "number" THEN NumText(x.v) ELSE x.v

\* obj[f] of a JSON object: undefined when the object has no such member.
Field(obj, f) == IF f \in DOMAIN obj THEN obj[f] ELSE Missing

Range(s) == {s[i] : i \in 1..Len(s)}

SeqsUpTo(S, n) == UNION {[1..k -> S] : k \in 0..n}

(***************************************************************************)
(* DOM content: a container is the sequence of its child nodes.            *)
(***************************************************************************)
InitialContent == <<[kind |-> "initial"]>>

Node(kind, text) == [kind |-> kind, text |-> text]

IsCard(n) == n.kind = "card"
IsMessage(n) == n.kind \in {"error", "empty"}

Cards(c) == SelectSeq(c, IsCard)

\* The element each loader looks up with getElementById.
RepoContainerId == "repo-container"
SharedContainerId == "repo-container"   \* the publication loader on the wrong element
PapersContainerId == "papers-container"

repoContainer == dom[RepoContainerId]
papersContainer == dom[PapersContainerId]

\* container.innerHTML = ...
SetContent(id, content) == dom' = [dom EXCEPT ![id] = content]

(***************************************************************************)
(* fetchRepos: the repository loader.                                      *)
(***************************************************************************)
RepoNames == {"a", "b"}
InvalidDate == 0    \* an updated_at that new Date() cannot parse (NaN)

RepoObjects(descs, langs) ==
    [t : {"object"}, name : RepoNames, updated_at : 0..MaxDate,
     description : descs, language : langs]

\* A JSON object with a member named toString, {"toString": 1}: the member
\* hides Object.prototype.toString and is not callable, so converting the
\* object to a string (the template literal of lines 228-250) throws a
\* TypeError.  Reading a property of it does not.
Unprintable == [t |-> "object", toString |-> Num(1)]

\* The entries a response array is built from: JSON null, a repository
\* object, or a repository object (of the first name) whose description
\* cannot be converted to a string.
RepoEntries ==
    {Null} \cup RepoObjects({Null}, {Null})
        \cup {r \in RepoObjects({Unprintable}, {Null}) : r.name = "a"}

\* The values of an optional text field: absent, null, empty or a text.
OptionalTexts == {Missing, Null, Str(""), Str("x")}

\* Responses with one repository, over every description and language.
CardBodies ==
    {[kind |-> "unparsable"], [kind |-> "object"]}
        \cup {[kind |-> "array", items |-> <<r>>] :
                 r \in RepoObjects(OptionalTexts, OptionalTexts)}

\* Response bodies: text that is not JSON, a JSON value that is not an array
\* (GitHub's {"message": ...} error object), or an array of entries.
RepoBodies(n) ==
    {[kind |-> "unparsable"], [kind |-> "object"]}
        \cup {[kind |-> "array", items |-> a] : a \in SeqsUpTo(RepoEntries, n)}

\* The entries of the runs that interleave both loaders: JSON null and one
\* repository, with a valid or an invalid date, with or without a description
\* that has a string conversion.
PageEntries == {Null} \cup {r \in RepoEntries \ {Null} : r.name = "a" /\ r.updated_at <= 1}

PageRepoBodies(n) ==
    {[kind |-> "unparsable"], [kind |-> "object"]}
        \cup {[kind |-> "array", items |-> a] : a \in SeqsUpTo(PageEntries, n)}

\* fetch() settles with a response (status class) or rejects (network error).
FetchOutcomes == {"ok", "non2xx", "networkError"}

\* new Date(x).getTime(): a number, or NaN.
IsNaNDate(u) == u = InvalidDate

\* The comparator of line 215, (a, b) => new Date(b.updated_at) - new Date(a.updated_at);
\* a NaN result is taken as +0 by Array.prototype.sort.
CompareAsc(a, b) ==
    IF IsNaNDate(a.updated_at) \/ IsNaNDate(b.updated_at) THEN 0
    ELSE a.updated_at - b.updated_at

RepoCompare(a, b) ==
    IF IsNaNDate(a.updated_at) \/ IsNaNDate(b.updated_at) THEN 0
    ELSE b.updated_at - a.updated_at

\* The comparator reads a property of each argument: a null entry throws.
SortThrows(arr) == Len(arr) >= 2 /\ \E i \in 1..Len(arr) : arr[i] = Null

\* A consistent comparator (ECMAScript 23.1.3.30.1): equality under it is
\* transitive and so is the order.  Otherwise the sort order is
\* implementation-defined.
ConsistentOn(arr) ==
    \A i, j, k \in 1..Len(arr) :
        /\ (RepoCompare(arr[i], arr[j]) = 0 /\ RepoCompare(arr[j], arr[k]) = 0)
              => RepoCompare(arr[i], arr[k]) = 0
        /\ (RepoCompare(arr[i], arr[j]) < 0 /\ RepoCompare(arr[j], arr[k]) < 0)
              => RepoCompare(arr[i], arr[k]) < 0
        /\ (RepoCompare(arr[i], arr[j]) > 0 /\ RepoCompare(arr[j], arr[k]) > 0)
              => RepoCompare(arr[i], arr[k]) > 0

\* Stable insertion of x into the sorted sequence s: after every element that
\* does not compare greater than x.
RECURSIVE InsertSorted(_, _)
InsertSorted(x, s) ==
    IF s = <<>> THEN <<x>>
    ELSE IF RepoCompare(s[Len(s)], x) <= 0 THEN Append(s, x)
    ELSE Append(InsertSorted(x, SubSeq(s, 1, Len(s) - 1)), s[Len(s)])

RECURSIVE StableSort(_)
StableSort(arr) ==
    IF arr = <<>> THEN <<>>
    ELSE InsertSorted(arr[Len(arr)], StableSort(SubSeq(arr, 1, Len(arr) - 1)))

Reorderings(arr) ==
    {[i \in 1..Len(arr) |-> arr[p[i]]] :
        p \in {q \in [1..Len(arr) -> 1..Len(arr)] :
                  \A i, j \in 1..Len(arr) : i # j => q[i] # q[j]}}

\* The orders repos.sort(...) can leave the array in (it does not throw here).
SortResults(arr) ==
    IF Len(arr) <= 1 THEN {arr}
    ELSE IF ConsistentOn(arr) THEN {StableSort(arr)}
    ELSE Reorderings(arr)

\* A card template without the `||` fallbacks: the field is interpolated as
\* it is.
RepoCardRaw(repo) ==
    [kind |-> "card", name |-> repo.name, updated |-> repo.updated_at,
     description |-> IF repo.description.t = "string" THEN repo.description.v
                     ELSE repo.description.t,
     language |-> IF repo.language.t = "string" THEN repo.language.v
                  ELSE repo.language.t]

\* `${x}` of a JSON value: an object without a toString member of its own
\* reads '[object Object]'.
Interpolated(x) == IF x.t = "object" THEN "[object Object]" ELSE Text(x)

\* `${x}` throws: an object whose own toString member is not a function
\* (JSON holds no function) has no conversion to a primitive.
InterpolationThrows(x) == x.t = "object" /\ "toString" \in DOMAIN x

\* Lines 228-250: the template literal of createRepoCard throws, before
\* appendChild (line 252), when a truthy description or language has no
\* string conversion.
RepoCardThrows(repo) ==
    \/ InterpolationThrows(repo.description)
    \/ InterpolationThrows(repo.language)

\* createRepoCard: the card appended for one repository object.
RepoCard(repo) ==
    [kind |-> "card", name |-> repo.name, updated |-> repo.updated_at,
     description |-> IF Truthy(repo.description) THEN Interpolated(repo.description)
                     ELSE "No description provided",
     language |-> IF Truthy(repo.language) THEN Interpolated(repo.language)
                  ELSE "Not specified"]

\* A loop that stops after the first card.
AppendFirstCard(arr) ==
    IF arr = <<>> THEN [threw |-> FALSE, cards |-> <<>>]
    ELSE IF arr[1] = Null \/ RepoCardThrows(arr[1]) THEN [threw |-> TRUE, cards |-> <<>>]
    ELSE [threw |-> FALSE, cards |-> <<RepoCard(arr[1])>>]

\* forEach(repo => createRepoCard(repo, container)): reading repo.name of a
\* null entry throws, and so does the template literal over an entry that has
\* no string conversion; the cards appended before it stay in the container.
RECURSIVE AppendCards(_)
AppendCards(arr) ==
    IF arr = <<>> THEN [threw |-> FALSE, cards |-> <<>>]
    ELSE IF arr[1] = Null \/ RepoCardThrows(arr[1]) THEN [threw |-> TRUE, cards |-> <<>>]
    ELSE LET rest == AppendCards(Tail(arr))
         IN [threw |-> rest.threw, cards |-> <<RepoCard(arr[1])>> \o rest.cards]

RepoLoadingNode == Node("loading", "Loading repositories...")
RepoErrorNode == Node("error", "Error loading repositories. Please try again later.")

\* Lines 206-211: the synchronous part of fetchRepos.
StartRepos ==
    /\ repoRequests' = repoRequests + 1
    /\ repoInFlight' = repoInFlight + 1
    /\ repoPc' = "fetching"
    /\ UNCHANGED <<repoStatus, repoBody>>

\* fetch() settles.  A rejection skips both then-callbacks; a response of any
\* status goes on to response.json() (line 212 does not look at response.ok).
RepoFetchSettled ==
    /\ repoPc = "fetching"
    /\ \E o \in FetchOutcomes :
          /\ repoStatus' = o
          /\ repoPc' = IF o = "networkError" THEN "rejected" ELSE "reading"
    /\ repoInFlight' = repoInFlight - 1
    /\ UNCHANGED <<repoBody, dom, repoRequests, variant, papersVars>>

\* response.json() settles: rejects for text that is not JSON.
RepoJsonSettled(Bodies) ==
    /\ repoPc = "reading"
    /\ \E b \in Bodies :
          /\ repoBody' = b
          /\ repoPc' = IF b.kind = "unparsable" THEN "rejected" ELSE "parsed"
    /\ UNCHANGED <<repoStatus, dom, repoRequests, repoInFlight,
                   variant, papersVars>>

\* What the callback of lines 213-217 leaves in the container, and whether it
\* threw, when the sort leaves the array in the order `sorted`.
RenderRepos(body, sorted) ==
    IF body.kind # "array" THEN [threw |-> TRUE, cards |-> <<>>]
    ELSE IF SortThrows(body.items) THEN [threw |-> TRUE, cards |-> <<>>]
    ELSE AppendCards(sorted)

\* Lines 213-217: clear the container, sort, append one card per entry.
RepoThen ==
    /\ repoPc = "parsed"
    /\ \E sorted \in (IF repoBody.kind = "array" /\ ~SortThrows(repoBody.items)
                      THEN SortResults(repoBody.items) ELSE {<<>>}) :
          LET r == RenderRepos(repoBody, sorted)
          IN /\ SetContent(RepoContainerId, r.cards)
             /\ repoPc' = IF r.threw THEN "rejected" ELSE "done"
    /\ UNCHANGED <<repoStatus, repoBody, repoRequests, repoInFlight,
                   variant, papersVars>>

\* A catch callback that writes the message only into an empty container.
RepoCatchIfEmpty(old) == IF Cards(old) = <<>> THEN <<RepoErrorNode>> ELSE old

\* A catch callback that appends the message to what the container holds.
RepoCatchAppends(old) == old \o <<RepoErrorNode>>

\* What the catch callback of lines 218-221 leaves in a container holding `old`.
RepoCatchContent(old) == <<RepoErrorNode>>

\* A promise chain without its catch callback: the rejection is never handled.
RepoWithoutCatch ==
    /\ repoPc = "rejected"
    /\ UNCHANGED vars

\* A catch handler that shows the error and then fetches again.
RepoCatchAndRetry ==
    /\ repoPc = "rejected"
    /\ SetContent(RepoContainerId, RepoCatchContent(repoContainer))
    /\ repoPc' = IF repoRequests < 2 THEN "fetching" ELSE "done"
    /\ repoRequests' = IF repoRequests < 2 THEN repoRequests + 1 ELSE repoRequests
    /\ repoInFlight' = IF repoRequests < 2 THEN repoInFlight + 1 ELSE repoInFlight
    /\ UNCHANGED <<repoStatus, repoBody, variant, papersVars>>

\* Lines 218-221.
RepoCatch ==
    /\ repoPc = "rejected"
    /\ SetContent(RepoContainerId, RepoCatchContent(repoContainer))
    /\ repoPc' = "done"
    /\ UNCHANGED <<repoStatus, repoBody, repoRequests, repoInFlight,
                   variant, papersVars>>
(***************************************************************************)
(* String helpers of the publication renderers.                            *)
(***************************************************************************)
\* String.prototype.padStart(n, '0').
RECURSIVE PadStart(_, _)
PadStart(s, n) == IF Len(s) >= n THEN s ELSE PadStart("0" \o s, n)

\* String.prototype.trim() on strings whose only white space is the blank.
RECURSIVE Trim(_)
Trim(s) ==
    IF s = "" THEN s
    ELSE IF SubSeq(s, 1, 1) = " " THEN Trim(SubSeq(s, 2, Len(s)))
    ELSE IF SubSeq(s, Len(s), Len(s)) = " " THEN Trim(SubSeq(s, 1, Len(s) - 1))
    ELSE s

\* String.prototype.toLowerCase() on the identifier type tags.
ToLowerCase(s) ==
    CASE s = "DOI" -> "doi"
      [] s = "Doi" -> "doi"
      [] s = "URL" -> "url"
      [] s = "Url" -> "url"
      [] s = "ISBN" -> "isbn"
      [] OTHER -> s

\* String.prototype.startsWith('http').
StartsWithHttp(s) == Len(s) >= 4 /\ SubSeq(s, 1, 4) = "http"

\* [ ... ].filter(Boolean).join(sep) over JSON scalars.
RECURSIVE FilterJoin(_, _)
FilterJoin(parts, sep) ==
    IF parts = <<>> THEN ""
    ELSE LET rest == FilterJoin(Tail(parts), sep)
         IN IF ~Truthy(parts[1]) THEN rest
            ELSE IF \E i \in 2..Len(parts) : Truthy(parts[i])
                 THEN parts[1].v \o sep \o rest
                 ELSE parts[1].v

\* array.join(sep) over strings.
RECURSIVE Join(_, _)
Join(strs, sep) ==
    IF strs = <<>> THEN ""
    ELSE IF Len(strs) = 1 THEN strs[1]
    ELSE strs[1] \o sep \o Join(Tail(strs), sep)

\* `${journal}${journal && date ? ' | ' : ''}${date}` when either is non-empty.
Details(journal, date) ==
    IF journal # "" /\ date # "" THEN journal \o " | " \o date ELSE journal \o date

PaperCard(title, url, authors, details) ==
    [kind |-> "card", title |-> title, url |-> url, authors |-> authors,
     details |-> details]

DoiUrl(v) == "https://doi.org/" \o v

\* A URL identifier is given a scheme when it has none.
WithScheme(v) == IF StartsWithHttp(v) THEN v ELSE "https://" \o v

(***************************************************************************)
(* JSON API work summaries (both JSON revisions read the same fields).     *)
(* An optional field is Missing (absent or null), Str or Num.              *)
(***************************************************************************)
\* x?.padStart(2, '0'): undefined stays undefined; a number has no padStart.
PadThrows(p) == p.t = "number"
PadPart(p) == IF p.t = "string" THEN Str(PadStart(p.v, 2)) ELSE Missing

\* Lines 509-517 / part_000 55-59: the date string of a summary.
SummaryDateThrows(date) ==
    date # Missing /\ (PadThrows(date.month) \/ PadThrows(date.day))

SummaryDate(date) ==
    IF date = Missing THEN ""
    ELSE FilterJoin(<<date.year, PadPart(date.month), PadPart(date.day)>>, "-")

\* Lines 520-536 of the chained revision: the for-of loop over the identifiers,
\* entered with the url found so far.
RECURSIVE LinkLoopChained(_, _)
LinkLoopChained(ids, url) ==
    IF ids = <<>> THEN url
    ELSE LET id == ids[1]
         IN IF id.type = Str("DOI") /\ Truthy(id.value) THEN DoiUrl(Text(id.value))
            ELSE IF id.type = Str("URL") /\ Truthy(id.value)
                 THEN LinkLoopChained(Tail(ids), WithScheme(id.value.v))
                 ELSE LinkLoopChained(Tail(ids), url)

LinkChained(ids) == LinkLoopChained(ids, "")

\* Whether that loop throws: a null identifier (line 522 reads a member of
\* it), or a URL value that is not a string (line 532 calls startsWith on
\* it), met before the loop breaks at a DOI.
RECURSIVE LinkChainedThrows(_)
LinkChainedThrows(ids) ==
    IF ids = <<>> THEN FALSE
    ELSE LET id == ids[1]
         IN IF id = Null THEN TRUE
            ELSE IF id.type = Str("DOI") /\ Truthy(id.value) THEN FALSE
            ELSE IF id.type = Str("URL") /\ Truthy(id.value)
                 THEN id.value.t # "string" \/ LinkChainedThrows(Tail(ids))
                 ELSE LinkChainedThrows(Tail(ids))

\* part_000 lines 61-70 of the API-only revision.
\* Whether the loop of part_000 lines 64-70 throws: a null identifier, a type
\* that is neither absent nor a string (line 65 calls toLowerCase on it before
\* anything else), or a url value that is not a string (line 69 calls
\* startsWith on it), met before the loop breaks at a DOI.
RECURSIVE LinkApiOnlyThrows(_)
LinkApiOnlyThrows(ids) ==
    IF ids = <<>> THEN FALSE
    ELSE LET id == ids[1]
         IN IF id = Null THEN TRUE
            ELSE IF id.type.t \notin {"string", "undefined", "null"} THEN TRUE
            ELSE IF ~Truthy(id.value) THEN LinkApiOnlyThrows(Tail(ids))
            ELSE IF id.type.t # "string" THEN LinkApiOnlyThrows(Tail(ids))
            ELSE IF ToLowerCase(id.type.v) = "doi" THEN FALSE
            ELSE IF ToLowerCase(id.type.v) = "url"
                 THEN id.value.t # "string" \/ LinkApiOnlyThrows(Tail(ids))
                 ELSE LinkApiOnlyThrows(Tail(ids))

\* The url that loop ends with, for identifier lists on which it does not
\* throw (the type of each identifier it visits is absent or a string).
RECURSIVE LinkLoopApiOnly(_, _)
LinkLoopApiOnly(ids, url) ==
    IF ids = <<>> THEN url
    ELSE LET id == ids[1]
             type == IF id.type.t = "string" THEN ToLowerCase(id.type.v) ELSE ""
         IN IF ~Truthy(id.value) THEN LinkLoopApiOnly(Tail(ids), url)
            ELSE IF type = "doi" THEN DoiUrl(Text(id.value))
            ELSE IF type = "url"
                 THEN LinkLoopApiOnly(Tail(ids), WithScheme(id.value.v))
                 ELSE LinkLoopApiOnly(Tail(ids), url)

LinkApiOnly(ids) == LinkLoopApiOnly(ids, "")

\* contributors.map(c => c['credit-name']?.value || fallback).join(', ');
\* reading a property of a null contributor throws.
AuthorsThrow(contributors) ==
    \E i \in 1..Len(contributors) : contributors[i] = Null

AuthorsOf(contributors, fallback) ==
    Join([i \in 1..Len(contributors) |->
            IF Truthy(contributors[i].name) THEN contributors[i].name.v
            ELSE fallback], ", ")

TitleOr(title, fallback) == IF Truthy(title) THEN title.v ELSE fallback

\* A reader that takes the last entry of the list instead.
LastSummary(group) ==
    IF group.summaries = <<>> THEN Missing ELSE group.summaries[Len(group.summaries)]

\* The first entry of a group's work-summary list, or Missing.
FirstSummary(group) ==
    IF group.summaries = <<>> THEN Missing ELSE group.summaries[1]

\* One step of the map callback over a group: "throw", "skip" or "card".
GroupOutcome(group, chained) ==
    IF group = Null THEN "throw"
    ELSE IF FirstSummary(group) \in {Missing, Null} THEN "skip"
    ELSE IF SummaryDateThrows(FirstSummary(group).date) THEN "throw"
    ELSE IF chained /\ LinkChainedThrows(FirstSummary(group).ids) THEN "throw"
    ELSE IF ~chained /\ LinkApiOnlyThrows(FirstSummary(group).ids) THEN "throw"
    ELSE IF AuthorsThrow(FirstSummary(group).contributors) THEN "throw"
    ELSE "card"

\* Lines 500-552 of the chained revision: the card of a group with a summary.
CardChained(group) ==
    LET s == FirstSummary(group)
    IN PaperCard(TitleOr(s.title, "Untitled Work (API)"),
                 LinkChained(s.ids),
                 AuthorsOf(s.contributors, "Unknown Author"),
                 Details(TitleOr(s.journal, ""), SummaryDate(s.date)))

\* part_000 lines 49-83 of the API-only revision.
CardApiOnly(group) ==
    LET s == FirstSummary(group)
    IN PaperCard(TitleOr(s.title, "Untitled"),
                 LinkApiOnly(s.ids),
                 AuthorsOf(s.contributors, "Unknown"),
                 Details(TitleOr(s.journal, ""), SummaryDate(s.date)))

\* groups.map(...).filter(...): the cards produced, up to the first group
\* whose callback throws.
RECURSIVE MapGroups(_, _)
MapGroups(groups, chained) ==
    IF groups = <<>> THEN [threw |-> FALSE, cards |-> <<>>]
    ELSE LET o == GroupOutcome(groups[1], chained)
         IN IF o = "throw" THEN [threw |-> TRUE, cards |-> <<>>]
            ELSE LET rest == MapGroups(Tail(groups), chained)
                     here == IF o = "skip" THEN <<>>
                             ELSE IF chained THEN <<CardChained(groups[1])>>
                             ELSE <<CardApiOnly(groups[1])>>
                 IN [threw |-> rest.threw, cards |-> here \o rest.cards]
(***************************************************************************)
(* The public-record XML revision: extractWorksFromXml and                 *)
(* displayPapersFromXmlData.  An element that is absent is Missing; one    *)
(* that is present is the Str of its text content.                         *)
(***************************************************************************)
TextOf(el) == Trim(el.v)

\* Lines 104-115: the identifiers that have both a type and a value element.
RECURSIVE XmlExternalIds(_)
XmlExternalIds(els) ==
    IF els = <<>> THEN <<>>
    ELSE LET rest == XmlExternalIds(Tail(els))
         IN IF els[1].type # Missing /\ els[1].value # Missing
            THEN <<[type |-> TextOf(els[1].type), value |-> TextOf(els[1].value)]>>
                     \o rest
            ELSE rest

\* Lines 118-128: the date string of a work element.
XmlPart(el, width) == IF el = Missing THEN Null ELSE Str(PadStart(TextOf(el), width))

XmlDate(date) ==
    IF date = Missing THEN ""
    ELSE FilterJoin(<<XmlPart(date.year, 4), XmlPart(date.month, 2),
                      XmlPart(date.day, 2)>>, "-")

\* Lines 135-143: the credit names of the contributors that have one.
RECURSIVE XmlAuthors(_)
XmlAuthors(els) ==
    IF els = <<>> THEN <<>>
    ELSE IF els[1] = Missing THEN XmlAuthors(Tail(els))
    ELSE <<TextOf(els[1])>> \o XmlAuthors(Tail(els))

\* Lines 98-153: the work object pushed for one work element.
XmlWorkData(w) ==
    [title |-> IF w.title = Missing THEN "Untitled Work (XML)" ELSE TextOf(w.title),
     authors |-> Join(XmlAuthors(w.contributors), ", "),
     date |-> XmlDate(w.date),
     journal |-> IF w.journal = Missing THEN "" ELSE TextOf(w.journal),
     externalIds |-> XmlExternalIds(w.ids)]

\* Line 94: querySelectorAll('work\\:work, work:work').  The second selector of
\* the list is the type selector `work` followed by the pseudo-class `:work`,
\* which does not exist: the selector list is invalid and querySelectorAll
\* throws a SyntaxError.  Every other selector of lines 100-138 has the same
\* shape.
XmlSelectorsValid == FALSE

\* Lines 87-157: the works extracted from the work elements of the document,
\* or the exception of line 94.
extractWorksFromXml(works) ==
    IF XmlSelectorsValid
    THEN [threw |-> FALSE, works |-> [i \in 1..Len(works) |-> XmlWorkData(works[i])]]
    ELSE [threw |-> TRUE, works |-> <<>>]

\* externalIds.find(id => id.type === 'doi'): the first such index, or 0.
FirstDoi(ids) ==
    IF \E i \in 1..Len(ids) : ids[i].type = "doi"
    THEN CHOOSE i \in 1..Len(ids) :
            ids[i].type = "doi" /\ \A j \in 1..(i - 1) : ids[j].type # "doi"
    ELSE 0

\* externalIds.find(id => id.type.toLowerCase() === 'url'), likewise.
FirstUrl(ids) ==
    IF \E i \in 1..Len(ids) : ToLowerCase(ids[i].type) = "url"
    THEN CHOOSE i \in 1..Len(ids) :
            /\ ToLowerCase(ids[i].type) = "url"
            /\ \A j \in 1..(i - 1) : ToLowerCase(ids[j].type) # "url"
    ELSE 0

\* Lines 170-187: prefer the DOI, then a url identifier.
LinkXml(ids) ==
    LET d == FirstDoi(ids)
        u == FirstUrl(ids)
    IN IF d # 0 /\ ids[d].value # "" THEN DoiUrl(ids[d].value)
       ELSE IF u # 0 /\ ids[u].value # "" THEN WithScheme(ids[u].value)
       ELSE ""

\* Lines 169-198: the card of one extracted work.
CardXml(work) ==
    PaperCard(work.title, LinkXml(work.externalIds), work.authors,
              Details(work.journal, work.date))

\* Lines 161-201: what displayPapersFromXmlData leaves in the container.
displayPapersFromXmlData(worksData) ==
    IF worksData = <<>>
    THEN <<Node("empty", "No publications found in ORCID XML record.")>>
    ELSE [i \in 1..Len(worksData) |-> CardXml(worksData[i])]

(***************************************************************************)
(* The profile-HTML fallback of the chained revision:                      *)
(* extractWorksFromHtmlJsonLd and displayPapersFromParsedData.             *)
(***************************************************************************)
WorkTypes == {"ScholarlyArticle", "CreativeWork", "Dataset", "Thesis", "Book", "Chapter"}

IsWorkItem(item) == item.type.t = "string" /\ item.type.v \in WorkTypes

\* Lines 387-426: what one script block contributes: "skip" (JSON.parse or
\* the filter callback threw, or nothing matched) or the works found.
BlockWorks(block) ==
    CASE block.kind = "invalid" -> <<>>
      [] block.kind = "scalar" -> <<>>
      [] block.kind = "object" ->
            IF IsWorkItem(block.item) THEN <<block.item>> ELSE <<>>
      [] block.kind = "array" ->
            IF \E i \in 1..Len(block.items) : block.items[i] = Null THEN <<>>
            ELSE SelectSeq(block.items, IsWorkItem)

\* Lines 381-435: the works of the first block that has any; <<>> stands for
\* the null returned when no block has one.
RECURSIVE extractWorksFromHtmlJsonLd(_)
extractWorksFromHtmlJsonLd(blocks) ==
    IF blocks = <<>> THEN <<>>
    ELSE IF BlockWorks(blocks[1]) # <<>> THEN BlockWorks(blocks[1])
    ELSE extractWorksFromHtmlJsonLd(Tail(blocks))

\* a || b || c || fallback over optional scalars.
FirstTruthy(xs, fallback) ==
    IF \E i \in 1..Len(xs) : Truthy(xs[i])
    THEN Text(xs[CHOOSE i \in 1..Len(xs) :
                    Truthy(xs[i]) /\ \A j \in 1..(i - 1) : ~Truthy(xs[j])])
    ELSE fallback

\* Lines 450-457: the author string; a null inside an author array throws
\* (line 453 reads a.name of it).
LdAuthorThrows(author) ==
    author.t = "array" /\ \E i \in 1..Len(author.items) : author.items[i] = Null

\* typeof a === 'string' ? a : (a.name || a['@name'] || 'Unknown Author'); the
\* member '@name' of an author object is its field atName.
LdAuthorName(a) ==
    IF a.t = "string" THEN a.v
    ELSE IF a.t = "object"
    THEN FirstTruthy(<<Field(a, "name"), Field(a, "atName")>>, "Unknown Author")
    ELSE "Unknown Author"

LdAuthors(author) ==
    IF ~Truthy(author) THEN ""
    ELSE IF author.t = "array"
    THEN Join([i \in 1..Len(author.items) |-> LdAuthorName(author.items[i])], ", ")
    ELSE LdAuthorName(author)

\* Lines 461-465 and 467-471: a string gives itself, an object with a truthy
\* name gives the name, anything else (a number, an array, an object without
\* a name) leaves the journal empty.
LdVenue(x) ==
    IF x.t = "string" THEN x.v
    ELSE IF x.t = "object" /\ Truthy(Field(x, "name")) THEN Text(Field(x, "name"))
    ELSE ""

\* Lines 459-473: isPartOf wins over publisher whenever it is truthy, also
\* when it yields no journal; publisher is read only when isPartOf is falsy.
LdJournal(work) ==
    IF Truthy(work.isPartOf) THEN LdVenue(work.isPartOf)
    ELSE IF Truthy(work.publisher) THEN LdVenue(work.publisher)
    ELSE ""

\* Lines 446-485: the card of one JSON-LD work.
CardJsonLd(work) ==
    PaperCard(FirstTruthy(<<work.name, work.headline, work.title>>, "Untitled Work (JSON-LD)"),
              FirstTruthy(<<work.url, work.id>>, ""),
              LdAuthors(work.author),
              Details(LdJournal(work),
                      FirstTruthy(<<work.datePublished, work.dateCreated,
                                    work.publicationDate>>, "")))

\* Lines 438-488: whether the map callback throws, and what is rendered if not.
ParsedDataThrows(worksData) ==
    \E i \in 1..Len(worksData) : LdAuthorThrows(worksData[i].author)

displayPapersFromParsedData(worksData) ==
    IF worksData = <<>>
    THEN <<Node("empty", "No publications found in ORCID profile (parsed from HTML JSON-LD).")>>
    ELSE [i \in 1..Len(worksData) |-> CardJsonLd(worksData[i])]

\* Lines 491-560: what displayPapers leaves in the container when its map
\* callback does not throw.
displayPapers(groups) ==
    IF groups = <<>>
    THEN <<Node("empty", "No publications found in ORCID profile (API).")>>
    ELSE IF MapGroups(groups, TRUE).cards # <<>> THEN MapGroups(groups, TRUE).cards
    ELSE <<Node("empty", "No publication summaries found in ORCID profile data after processing (API).")>>
(***************************************************************************)
(* Inputs of the publication loaders.                                      *)
(***************************************************************************)
\* fetch() settles with a response (its status) or rejects (network error).
PubOutcomes == {"ok", "404", "401", "403", "500", "networkError"}

PlainSummary ==
    [title |-> Str("T"), journal |-> Missing, date |-> Missing, ids |-> <<>>,
     contributors |-> <<>>]

GroupOf(summaries) == [t |-> "object", summaries |-> summaries]

\* The work groups the loader runs draw from: JSON null, a group without a
\* summary, a group with a plain summary, a group whose month is a number.
LoaderGroups ==
    {Null, GroupOf(<<>>), GroupOf(<<PlainSummary>>),
     GroupOf(<<[PlainSummary EXCEPT !.date =
                  [year |-> Str("2021"), month |-> Num(5), day |-> Missing]]>>)}

\* Work groups with no summary, one summary, or two summaries of different
\* titles, and JSON null.
SummaryGroups ==
    {Null, GroupOf(<<>>), GroupOf(<<PlainSummary>>),
     GroupOf(<<[PlainSummary EXCEPT !.title = Str("U")], PlainSummary>>)}

GroupApiBodies ==
    {[kind |-> "data", groups |-> g] : g \in SeqsUpTo(SummaryGroups, MaxGroups)}

\* Bodies of the activities endpoint: not JSON, JSON null, or an object whose
\* activities:works.group list is `groups` (an absent list is the empty one).
ApiBodies(n) ==
    {[kind |-> "unparsable"], [kind |-> "null"]}
        \cup {[kind |-> "data", groups |-> g] : g \in SeqsUpTo(LoaderGroups, n)}

PlainXmlWork ==
    [title |-> Str("T"), ids |-> <<>>, date |-> Missing, journal |-> Missing,
     contributors |-> <<>>]

LoaderXmlWorks == {PlainXmlWork, [PlainXmlWork EXCEPT !.title = Missing]}

\* Bodies of the public record: a read that fails, text that is not XML, or a
\* document with the given work elements.
XmlBodies(n) ==
    {[kind |-> "aborted"], [kind |-> "malformed"]}
        \cup {[kind |-> "xml", works |-> w] : w \in SeqsUpTo(LoaderXmlWorks, n)}

PlainItem ==
    [t |-> "object", type |-> Str("ScholarlyArticle"), name |-> Str("T"),
     headline |-> Missing, title |-> Missing, author |-> Missing,
     datePublished |-> Missing, dateCreated |-> Missing,
     publicationDate |-> Missing, isPartOf |-> Missing, publisher |-> Missing,
     url |-> Missing, id |-> Missing]

LoaderItems ==
    {Null, PlainItem, [PlainItem EXCEPT !.type = Str("Person")],
     [PlainItem EXCEPT !.author = [t |-> "array", items |-> <<Null>>]]}

LoaderBlocks(ni) ==
    {[kind |-> "invalid"], [kind |-> "scalar"]}
        \cup {[kind |-> "object", item |-> i] : i \in LoaderItems \ {Null}}
        \cup {[kind |-> "array", items |-> a] : a \in SeqsUpTo(LoaderItems, ni)}

\* Script blocks over entries of three kinds: JSON null, an article and a
\* book (two works that render differently), and a block that is a Person.
LdEntries ==
    {Null, PlainItem, [PlainItem EXCEPT !.type = Str("Book"), !.name = Str("B")]}

LdBlocks ==
    {[kind |-> "invalid"],
     [kind |-> "object", item |-> [PlainItem EXCEPT !.type = Str("Person")]]}
        \cup {[kind |-> "array", items |-> a] : a \in SeqsUpTo(LdEntries, MaxLdItems)}

LdBodies ==
    {[kind |-> "aborted"]}
        \cup {[kind |-> "html", blocks |-> b] : b \in SeqsUpTo(LdBlocks, MaxLdBlocks)}

\* Bodies of the profile page: a read that fails, or a document with the
\* given application/ld+json script blocks.
HtmlBodies(nb, ni) ==
    {[kind |-> "aborted"]}
        \cup {[kind |-> "html", blocks |-> b] : b \in SeqsUpTo(LoaderBlocks(ni), nb)}

NoBody == [kind |-> "none"]

\* External identifiers: a type tag and a value; the value is absent, empty,
\* a DOI, or a URL with or without its scheme.
IdTypes == {"DOI", "doi", "URL", "url"}
IdValues == {Missing, Str(""), Str("10.1/x"), Str("http://u.org"), Str("u.org")}
IdEntries ==
    [type : {Str(t) : t \in IdTypes}, value : IdValues]
        \cup {[type |-> Num(5), value |-> Str("10.1/x")]}   \* a type that is no string
IdLists == SeqsUpTo(IdEntries, MaxIds)

\* Responses with one work that carries the given identifiers.
LinkApiBodies ==
    {[kind |-> "data", groups |-> <<GroupOf(<<[PlainSummary EXCEPT !.ids = ids]>>)>>] :
        ids \in IdLists}

\* common:external-id elements of the public record: the text of the type
\* element and of the value element.
XmlIdElements ==
    [type : {Str(t) : t \in IdTypes},
     value : {Str(""), Str("10.1/x"), Str("http://u.org"), Str("u.org")}]

\* Public records with one work that carries the given identifiers.
LinkXmlBodies ==
    {[kind |-> "xml", works |-> <<[PlainXmlWork EXCEPT !.ids = ids]>>] :
        ids \in SeqsUpTo(XmlIdElements, MaxIds)}

\* Titles and publication dates of one work.  A JSON date part is absent, a
\* string of one or two digits, or a number; an XML date part is an absent
\* element or the text of the element.
FieldTitles == {Missing, Str(""), Str("T")}
DateYears == {Missing, Str("2021")}
JsonDateParts == {Missing, Str("5"), Str("11"), Num(5)}
JsonDates == {Missing} \cup [year : DateYears, month : JsonDateParts, day : JsonDateParts]
XmlDateParts == {Missing, Str("5"), Str("11")}
XmlDates == {Missing} \cup [year : DateYears, month : XmlDateParts, day : XmlDateParts]

\* Responses with one work that carries the given title and date.
FieldApiBodies ==
    {[kind |-> "data",
      groups |-> <<GroupOf(<<[PlainSummary EXCEPT !.title = t, !.date = d]>>)>>] :
        t \in FieldTitles, d \in JsonDates}

FieldXmlBodies ==
    {[kind |-> "xml", works |-> <<[PlainXmlWork EXCEPT !.title = t, !.date = d]>>] :
        t \in FieldTitles, d \in XmlDates}

\* Authors and venues of a JSON-LD work: absent, a string, a number, an
\* object with a name, with an '@name', or with neither, an array.
LdAuthorValues ==
    {Missing, Str("A"), Num(5),
     [t |-> "object", name |-> Str("N"), atName |-> Missing],
     [t |-> "object", name |-> Str(""), atName |-> Str("M")],
     [t |-> "object", name |-> Missing, atName |-> Missing],
     [t |-> "array", items |-> <<Str("A"), [t |-> "object", name |-> Missing, atName |-> Str("M")]>>]}

LdVenueValues ==
    {Missing, Str(""), Str("J"), Num(5), [t |-> "object", name |-> Str("J")],
     [t |-> "object", name |-> Missing], [t |-> "array", items |-> <<Str("J")>>]}

\* Profile pages with one JSON-LD work that carries the given name.
FieldHtmlBodies ==
    {[kind |-> "aborted"], [kind |-> "html", blocks |-> <<>>]}
        \cup {[kind |-> "html",
                blocks |-> <<[kind |-> "object", item |-> [PlainItem EXCEPT !.name = t]]>>] :
                 t \in FieldTitles}
        \cup {[kind |-> "html",
                blocks |-> <<[kind |-> "object",
                              item |-> [PlainItem EXCEPT !.author = a, !.isPartOf = j,
                                                         !.publisher = Str("P")]]>>] :
                 a \in LdAuthorValues, j \in LdVenueValues}

(***************************************************************************)
(* fetchOrcidWorks: the three revisions.                                   *)
(***************************************************************************)
PapersLoadingNode == Node("loading", "Loading publications...")

PapersError(message) == Node("error", "Error loading publications: " \o message)

ChainSuffix == "<br>Could not retrieve data from ORCID API or profile page."

NetworkMessage == "Failed to fetch"
SelectorMessage == "'work\\:work, work:work' is not a valid selector"
TypeErrorMessage == "TypeError"

\* A loader that races both strategies instead of chaining them.
StartPapersRacing ==
    /\ papersRequests' = papersRequests + 2
    /\ papersInFlight' = papersInFlight + 2
    /\ papersPc' = "fetching1"
    /\ UNCHANGED <<firstStatus, firstBody, secondStatus, secondBody, papersScratch>>

\* The synchronous part of fetchOrcidWorks, the same in every revision.
StartPapers ==
    /\ papersRequests' = papersRequests + 1
    /\ papersInFlight' = papersInFlight + 1
    /\ papersPc' = "fetching1"
    /\ UNCHANGED <<firstStatus, firstBody, secondStatus, secondBody, papersScratch>>

\* The revisions of the script, each loaded on its own: script.js 1-279
\* (public-record XML), script.js 280-638 (API, then the profile page) and
\* part_000 without the declaration of its line 22 (API only).
Revisions == {"xml", "chain", "api"}

\* The two files as they are stored.  Each declares `const ORCID_ID` twice at
\* top level (script.js 22 and 301, part_000 22 and 32): an early SyntaxError,
\* raised before the first statement runs.
StoredFiles == {"script.js", "part_000"}

\* document.addEventListener('DOMContentLoaded', ...) of line 2 has run: the
\* script was evaluated.  A stored file is not, so it registers no listener,
\* issues no request and leaves both containers as they were.
ListenerRegistered == variant \in Revisions

\* The DOMContentLoaded handler: both loaders start in the same job.
DOMContentLoaded ==
    /\ ListenerRegistered
    /\ repoPc = "idle"
    /\ papersPc = "idle"
    /\ StartRepos
    /\ StartPapers
    /\ dom' = [dom EXCEPT ![RepoContainerId] = <<RepoLoadingNode>>,
                          ![PapersContainerId] = <<PapersLoadingNode>>]
    /\ UNCHANGED variant

\* ---- public-record XML revision (script.js 25-84) ----

\* One message for every response that is not ok.
XmlGenericMessage(o) ==
    IF o = "networkError" THEN NetworkMessage ELSE "ORCID XML API Error"

\* Lines 44-52: the message thrown for a response that is not ok.
XmlStatusMessage(o) ==
    CASE o = "404" -> "ORCID public record XML not found for ID"
      [] o \in {"401", "403"} -> "Access to ORCID public record XML denied (Profile is private or restricted)."
      [] o = "networkError" -> NetworkMessage
      [] OTHER -> "ORCID XML API Error: " \o o

XmlFetchSettled ==
    /\ variant = "xml"
    /\ papersPc = "fetching1"
    /\ \E o \in PubOutcomes :
          /\ firstStatus' = o
          /\ IF o = "ok"
             THEN /\ papersPc' = "reading1"
                  /\ UNCHANGED dom
             ELSE /\ papersPc' = "done"
                  /\ SetContent(PapersContainerId, <<PapersError(XmlStatusMessage(o))>>)
    /\ papersInFlight' = papersInFlight - 1
    /\ UNCHANGED <<firstBody, secondStatus, secondBody, papersScratch,
                   papersRequests, variant, repoVars>>

\* Lines 54-83: what the container holds after the body has been handled.
XmlResult(body) ==
    CASE body.kind = "aborted" -> <<PapersError(NetworkMessage)>>
      [] body.kind = "malformed" ->
            <<PapersError("Failed to parse the ORCID XML response.")>>
      [] OTHER ->
            LET x == extractWorksFromXml(body.works)
            IN IF x.threw THEN <<PapersError(SelectorMessage)>>
               ELSE IF Len(x.works) > 0 THEN displayPapersFromXmlData(x.works)
               ELSE <<PapersError("Could not extract publication data from the ORCID XML record (no works found or parsing failed).")>>

XmlTextSettled(Bodies) ==
    /\ variant = "xml"
    /\ papersPc = "reading1"
    /\ \E b \in Bodies :
          /\ firstBody' = b
          /\ SetContent(PapersContainerId, XmlResult(b))
    /\ papersPc' = "done"
    /\ UNCHANGED <<firstStatus, secondStatus, secondBody, papersScratch,
                   papersRequests, papersInFlight, variant, repoVars>>

\* ---- API-only revision (part_000 34-92) ----

ApiStatusMessage(o) ==
    IF o = "networkError" THEN NetworkMessage ELSE "ORCID API " \o o

ApiFetchSettled ==
    /\ variant = "api"
    /\ papersPc = "fetching1"
    /\ \E o \in PubOutcomes :
          /\ firstStatus' = o
          /\ IF o = "ok"
             THEN /\ papersPc' = "reading1"
                  /\ UNCHANGED dom
             ELSE /\ papersPc' = "done"
                  /\ SetContent(PapersContainerId, <<PapersError(ApiStatusMessage(o))>>)
    /\ papersInFlight' = papersInFlight - 1
    /\ UNCHANGED <<firstBody, secondStatus, secondBody, papersScratch,
                   papersRequests, variant, repoVars>>

\* data?.['activities:works']?.group ?? []
ApiOnlyGroups(body) == IF body.kind = "data" THEN body.groups ELSE <<>>

\* A catch handler that adds the error below the cards produced so far.
ApiOnlyResultKeepsPartial(body) ==
    IF body.kind = "unparsable"
    THEN [content |-> <<PapersError("SyntaxError")>>, scratch |-> <<>>]
    ELSE IF ApiOnlyGroups(body) = <<>>
    THEN [content |-> <<Node("empty", "No publications found.")>>, scratch |-> <<>>]
    ELSE LET m == MapGroups(ApiOnlyGroups(body), FALSE)
         IN [content |-> IF m.threw THEN m.cards \o <<PapersError(TypeErrorMessage)>>
                         ELSE IF m.cards # <<>> THEN m.cards
                         ELSE <<Node("empty", "No displayable publications found.")>>,
             scratch |-> m.cards]

\* A loader that reports an empty work list as an error.
ApiOnlyResultEmptyIsError(body) ==
    IF body.kind = "unparsable"
    THEN [content |-> <<PapersError("SyntaxError")>>, scratch |-> <<>>]
    ELSE IF ApiOnlyGroups(body) = <<>>
    THEN [content |-> <<PapersError("No publications found.")>>, scratch |-> <<>>]
    ELSE LET m == MapGroups(ApiOnlyGroups(body), FALSE)
         IN [content |-> IF m.threw THEN <<PapersError(TypeErrorMessage)>>
                         ELSE IF m.cards # <<>> THEN m.cards
                         ELSE <<Node("empty", "No displayable publications found.")>>,
             scratch |-> m.cards]

\* part_000 lines 44-91: the container after the body has been handled, and
\* the cards the map had produced when it ended.
ApiOnlyResult(body) ==
    IF body.kind = "unparsable"
    THEN [content |-> <<PapersError("SyntaxError")>>, scratch |-> <<>>]
    ELSE IF ApiOnlyGroups(body) = <<>>
    THEN [content |-> <<Node("empty", "No publications found.")>>, scratch |-> <<>>]
    ELSE LET m == MapGroups(ApiOnlyGroups(body), FALSE)
         IN [content |-> IF m.threw THEN <<PapersError(TypeErrorMessage)>>
                         ELSE IF m.cards # <<>> THEN m.cards
                         ELSE <<Node("empty", "No displayable publications found.")>>,
             scratch |-> m.cards]

ApiJsonSettled(Bodies) ==
    /\ variant = "api"
    /\ papersPc = "reading1"
    /\ \E b \in Bodies :
          /\ firstBody' = b
          /\ SetContent(PapersContainerId, ApiOnlyResult(b).content)
          /\ papersScratch' = ApiOnlyResult(b).scratch
    /\ papersPc' = "done"
    /\ UNCHANGED <<firstStatus, secondStatus, secondBody,
                   papersRequests, papersInFlight, variant, repoVars>>

\* ---- chained revision (script.js 304-378) ----

\* Lines 339-350: the profile page is requested.
StartHtmlFallback ==
    /\ papersRequests' = papersRequests + 1
    /\ papersPc' = "fetching2"

\* Lines 312-322: a rejected fetch or a response that is not ok goes straight
\* on to the profile page, in the same job.
ChainApiSettled ==
    /\ variant = "chain"
    /\ papersPc = "fetching1"
    /\ \E o \in PubOutcomes :
          /\ firstStatus' = o
          /\ IF o = "ok"
             THEN /\ papersPc' = "reading1"
                  /\ papersInFlight' = papersInFlight - 1
                  /\ UNCHANGED papersRequests
             ELSE /\ StartHtmlFallback
                  /\ papersInFlight' = (papersInFlight - 1) + 1
    /\ UNCHANGED <<firstBody, secondStatus, secondBody, dom,
                   papersScratch, variant, repoVars>>

\* A primary attempt that stops on an empty work list instead of falling back.
ChainApiResultStopsOnEmpty(body) ==
    IF body.kind # "data"
    THEN [rendered |-> FALSE, content |-> <<>>, scratch |-> <<>>]
    ELSE LET m == MapGroups(body.groups, TRUE)
         IN IF m.threw
            THEN [rendered |-> FALSE, content |-> <<>>, scratch |-> m.cards]
            ELSE [rendered |-> TRUE, content |-> displayPapers(body.groups),
                  scratch |-> m.cards]

\* A primary attempt whose handler renders the exception as an error.
ChainApiResultShowsError(body) ==
    IF body.kind # "data" \/ body.groups = <<>>
    THEN [rendered |-> FALSE, content |-> <<>>, scratch |-> <<>>]
    ELSE LET m == MapGroups(body.groups, TRUE)
         IN IF m.threw
            THEN [rendered |-> TRUE, content |-> <<PapersError(TypeErrorMessage)>>,
                  scratch |-> m.cards]
            ELSE [rendered |-> TRUE, content |-> displayPapers(body.groups),
                  scratch |-> m.cards]

\* Lines 323-337: whether the primary attempt rendered (and what), or fell
\* through to the fallback, and the cards its map had produced.
ChainApiResult(body) ==
    IF body.kind # "data" \/ body.groups = <<>>
    THEN [rendered |-> FALSE, content |-> <<>>, scratch |-> <<>>]
    ELSE LET m == MapGroups(body.groups, TRUE)
         IN IF m.threw
            THEN [rendered |-> FALSE, content |-> <<>>, scratch |-> m.cards]
            ELSE [rendered |-> TRUE, content |-> displayPapers(body.groups),
                  scratch |-> m.cards]

ChainApiJsonSettled(Bodies) ==
    /\ variant = "chain"
    /\ papersPc = "reading1"
    /\ \E b \in Bodies :
          /\ firstBody' = b
          /\ papersScratch' = ChainApiResult(b).scratch
          /\ IF ChainApiResult(b).rendered
             THEN /\ SetContent(PapersContainerId, ChainApiResult(b).content)
                  /\ papersPc' = "done"
                  /\ UNCHANGED <<papersRequests, papersInFlight>>
             ELSE /\ StartHtmlFallback
                  /\ papersInFlight' = papersInFlight + 1
                  /\ UNCHANGED dom
    /\ UNCHANGED <<firstStatus, secondStatus, secondBody, variant, repoVars>>

\* Lines 352-354 and 374-377.
ChainError(message) == PapersError(message \o ChainSuffix)

HtmlStatusMessage(o) ==
    IF o = "networkError" THEN NetworkMessage
    ELSE "HTTP " \o o \o " when fetching ORCID profile HTML."

ChainHtmlSettled ==
    /\ variant = "chain"
    /\ papersPc = "fetching2"
    /\ \E o \in PubOutcomes :
          /\ secondStatus' = o
          /\ IF o = "ok"
             THEN /\ papersPc' = "reading2"
                  /\ UNCHANGED dom
             ELSE /\ papersPc' = "done"
                  /\ SetContent(PapersContainerId, <<ChainError(HtmlStatusMessage(o))>>)
    /\ papersInFlight' = papersInFlight - 1
    /\ UNCHANGED <<firstStatus, firstBody, secondBody, papersScratch,
                   papersRequests, variant, repoVars>>

\* Lines 356-377: what the container holds after the page has been handled.
ChainHtmlResult(body) ==
    IF body.kind = "aborted" THEN <<ChainError(NetworkMessage)>>
    ELSE LET worksData == extractWorksFromHtmlJsonLd(body.blocks)
         IN IF Len(worksData) > 0
            THEN IF ParsedDataThrows(worksData) THEN <<ChainError(TypeErrorMessage)>>
                 ELSE displayPapersFromParsedData(worksData)
            ELSE <<ChainError("Could not extract publication data from the ORCID page HTML (no JSON-LD found or parsing failed).")>>

ChainHtmlTextSettled(Bodies) ==
    /\ variant = "chain"
    /\ papersPc = "reading2"
    /\ \E b \in Bodies :
          /\ secondBody' = b
          /\ SetContent(PapersContainerId, ChainHtmlResult(b))
    /\ papersPc' = "done"
    /\ UNCHANGED <<firstStatus, firstBody, secondStatus, papersScratch,
                   papersRequests, papersInFlight, variant, repoVars>>

(***************************************************************************)
(* Specifications.                                                         *)
(***************************************************************************)
\* What the page loads: one revision, or a file as stored.
Variants == Revisions \cup StoredFiles

Init ==
    /\ variant \in Variants
    /\ repoPc = "idle"
    /\ repoStatus = "none"
    /\ repoBody = NoBody
    /\ dom = [id \in {RepoContainerId, PapersContainerId} |-> InitialContent]
    /\ repoRequests = 0
    /\ repoInFlight = 0
    /\ papersPc = "idle"
    /\ firstStatus = "none"
    /\ firstBody = NoBody
    /\ secondStatus = "none"
    /\ secondBody = NoBody
    /\ papersScratch = <<>>
    /\ papersRequests = 0
    /\ papersInFlight = 0

RepoNext(Bodies) ==
    \/ RepoFetchSettled
    \/ RepoJsonSettled(Bodies)
    \/ RepoThen
    \/ RepoCatch

PapersNext(Xml, Api, Html) ==
    \/ XmlFetchSettled
    \/ XmlTextSettled(Xml)
    \/ ApiFetchSettled
    \/ ApiJsonSettled(Api)
    \/ ChainApiSettled
    \/ ChainApiJsonSettled(Api)
    \/ ChainHtmlSettled
    \/ ChainHtmlTextSettled(Html)

\* One page load: the responses of the two loaders arrive in any order.
Next ==
    \/ DOMContentLoaded
    \/ RepoNext(PageRepoBodies(PageRepos))
    \/ PapersNext(XmlBodies(PageWorks), ApiBodies(PageWorks), HtmlBodies(PageBlocks, 0))

Spec == Init /\ [][Next]_vars

\* The repository loader alone, over longer arrays.
NextRepo == DOMContentLoaded \/ RepoNext(RepoBodies(MaxRepos))

SpecRepo == Init /\ [][NextRepo]_vars

\* The repository loader over one repository with every optional field.
NextCard == DOMContentLoaded \/ RepoNext(CardBodies)

SpecCard == Init /\ [][NextCard]_vars

\* The publication loader alone, over longer work lists.
NextPubs ==
    \/ DOMContentLoaded
    \/ PapersNext(XmlBodies(MaxGroups), ApiBodies(MaxGroups), HtmlBodies(MaxBlocks, MaxItems))

SpecPubs == Init /\ [][NextPubs]_vars

\* Both loaders over responses whose rendering can fail after some entries
\* have been rendered.
NextDiscard ==
    \/ DOMContentLoaded
    \/ RepoNext(PageRepoBodies(PartialRepos))
    \/ PapersNext(XmlBodies(0), ApiBodies(PageWorks), HtmlBodies(0, 0))

SpecDiscard == Init /\ [][NextDiscard]_vars

\* The publication loader over one work with every list of identifiers.
NextLink ==
    \/ DOMContentLoaded
    \/ PapersNext(XmlBodies(0) \cup LinkXmlBodies, LinkApiBodies, HtmlBodies(0, 0))

SpecLink == Init /\ [][NextLink]_vars

\* One page load in which every issued request settles and every callback
\* that was queued runs: the steps of each loader are weakly fair.
NextLive ==
    \/ DOMContentLoaded
    \/ RepoNext(PageRepoBodies(PageRepos))
    \/ PapersNext(XmlBodies(0), ApiBodies(1), HtmlBodies(0, 0))

SpecLive ==
    /\ Init
    /\ [][NextLive]_vars
    /\ WF_vars(DOMContentLoaded)
    /\ WF_vars(RepoNext(PageRepoBodies(PageRepos)))
    /\ WF_vars(PapersNext(XmlBodies(0), ApiBodies(1), HtmlBodies(0, 0)))

\* The chained revision's fallback over pages of JSON-LD blocks.
NextLd ==
    \/ DOMContentLoaded
    \/ PapersNext(XmlBodies(0), ApiBodies(0), LdBodies)

SpecLd == Init /\ [][NextLd]_vars

\* The JSON revisions over work groups with zero, one or two summaries.
NextGroups ==
    \/ DOMContentLoaded
    \/ PapersNext(XmlBodies(0), GroupApiBodies, HtmlBodies(0, 0))

SpecGroups == Init /\ [][NextGroups]_vars

\* The publication loader over one work with every title and date.
NextFields ==
    \/ DOMContentLoaded
    \/ PapersNext(FieldXmlBodies, FieldApiBodies, FieldHtmlBodies)

SpecFields == Init /\ [][NextFields]_vars

(***************************************************************************)
(* The files as stored.                                                    *)
(***************************************************************************)
\* A stored file starts no loader: no request is issued and both containers
\* keep their initial content.
StoredFileInert ==
    (variant \in StoredFiles)
        => /\ repoPc = "idle" /\ papersPc = "idle"
           /\ repoRequests = 0 /\ papersRequests = 0
           /\ repoContainer = InitialContent /\ papersContainer = InitialContent

(***************************************************************************)
(* Properties of the repository loader.                                    *)
(***************************************************************************)
\* A well-formed repository array: every entry is an object whose updated_at
\* is a valid date and whose description and language are JSON scalars.
WellFormedRepos(body) ==
    /\ body.kind = "array"
    /\ \A i \in 1..Len(body.items) :
          /\ body.items[i] # Null
          /\ ~RepoCardThrows(body.items[i])
          /\ ~IsNaNDate(body.items[i].updated_at)

NonIncreasingUpdates(nodes) ==
    \A i \in 1..(Len(nodes) - 1) : nodes[i].updated >= nodes[i + 1].updated

\* C1: for every well-formed repository array, whatever the order of its
\* entries, the repo container ends holding cards only, in non-increasing
\* order of updated_at.
C1_CardsNonIncreasing ==
    (repoPc = "done" /\ WellFormedRepos(repoBody))
        => /\ \A i \in 1..Len(repoContainer) : IsCard(repoContainer[i])
           /\ Len(repoContainer) = Len(repoBody.items)
           /\ NonIncreasingUpdates(repoContainer)

\* A response in increasing order has been rendered, newest first.
C1_Witness ==
    /\ repoPc = "done"
    /\ WellFormedRepos(repoBody)
    /\ Len(repoBody.items) = 3
    /\ repoBody.items[1].updated_at < repoBody.items[2].updated_at
    /\ Len(repoContainer) = 3
    /\ repoContainer[1].updated > repoContainer[3].updated

\* C2: a non-2xx answer of the repository endpoint, whatever its body, ends
\* with exactly the static error message in the repo container.
C2_Non2xxShowsError ==
    (repoPc = "done" /\ repoStatus = "non2xx") => repoContainer = <<RepoErrorNode>>
(***************************************************************************)
(* Properties of the publication loaders.                                  *)
(***************************************************************************)
IsSingleMessage(c) == Len(c) = 1 /\ IsMessage(c[1])
AllCards(c) == \A i \in 1..Len(c) : IsCard(c[i])

HasSummary(group) == group # Null /\ FirstSummary(group) \notin {Missing, Null}

\* The primary (API) attempt of the chained loader yields records: a 2xx
\* response whose work-group list is not empty and is rendered without an
\* exception.
ApiAttemptYields ==
    /\ firstStatus = "ok"
    /\ firstBody.kind = "data"
    /\ Len(firstBody.groups) >= 1
    /\ ~MapGroups(firstBody.groups, TRUE).threw

\* The works the fallback (HTML) attempt parsed.
HtmlWorks ==
    IF secondStatus = "ok" /\ secondBody.kind = "html"
    THEN extractWorksFromHtmlJsonLd(secondBody.blocks) ELSE <<>>

HtmlAttemptYields == Len(HtmlWorks) >= 1 /\ ~ParsedDataThrows(HtmlWorks)

\* C3: the chained loader tries the API first and the profile page second;
\* it stops at the first attempt that yields records and renders them (one
\* card per record that has a summary); when no attempt yields records the
\* papers container ends with exactly one message and no card.
C3_ChainStopsAtFirstYield ==
    variant = "chain" =>
        /\ papersRequests <= 2
        /\ (papersRequests = 2 \/ secondStatus # "none")
              => (firstStatus # "none" /\ (firstStatus = "ok" => firstBody # NoBody))
        /\ papersPc = "done" =>
              IF ApiAttemptYields
              THEN /\ papersRequests = 1
                   /\ secondStatus = "none"
                   /\ Len(Cards(papersContainer))
                        = Len(SelectSeq(firstBody.groups, HasSummary))
                   /\ AllCards(papersContainer) \/ IsSingleMessage(papersContainer)
              ELSE /\ papersRequests = 2
                   /\ secondStatus # "none"
                   /\ IF HtmlAttemptYields
                      THEN /\ AllCards(papersContainer)
                           /\ Len(papersContainer) = Len(HtmlWorks)
                      ELSE IsSingleMessage(papersContainer)

\* The API attempt failed and the profile page supplied the cards.
C3_Witness ==
    /\ variant = "chain"
    /\ papersPc = "done"
    /\ firstStatus = "500"
    /\ HtmlAttemptYields
    /\ papersRequests = 2
    /\ papersContainer # <<>>
    /\ AllCards(papersContainer)

\* What every loader keeps to: at most two requests, one at a time.
RequestsSequential ==
    /\ repoRequests <= 2
    /\ papersRequests <= 2
    /\ repoInFlight <= 1
    /\ papersInFlight <= 1

\* The statement of C4 as written: the second publication request is issued
\* only after a network error or a non-2xx answer to the first.
C4_SecondOnlyAfterHttpFailure ==
    /\ RequestsSequential
    /\ papersRequests = 2 => firstStatus \in PubOutcomes \ {"ok"}

\* C4 (amended): each loader issues at most two requests, one at a time, and
\* the publication loader issues its second request only after its first
\* attempt has been seen to end without rendering: a network error, a non-2xx
\* answer, or a 2xx answer whose body is unparsable, has no work group or
\* throws while it is rendered.
C4_SecondOnlyAfterFirstAttemptEnded ==
    /\ RequestsSequential
    /\ papersRequests = 2 =>
          \/ firstStatus \in PubOutcomes \ {"ok"}
          \/ (firstStatus = "ok" /\ firstBody # NoBody /\ ~ApiAttemptYields)

\* The fallback request is in flight after a 2xx answer with no work group.
C4_Witness ==
    /\ variant = "chain"
    /\ papersRequests = 2
    /\ papersInFlight = 1
    /\ firstStatus = "ok"
    /\ firstBody.kind = "data"
    /\ firstBody.groups = <<>>

\* Every fetch the loader made succeeded and parsed, with zero records.
EmptyParsedResult ==
    CASE variant = "xml" ->
            firstStatus = "ok" /\ firstBody.kind = "xml" /\ firstBody.works = <<>>
      [] variant = "api" ->
            firstStatus = "ok" /\ firstBody.kind = "data" /\ firstBody.groups = <<>>
      [] OTHER ->
            /\ firstStatus = "ok" /\ firstBody.kind = "data" /\ firstBody.groups = <<>>
            /\ secondStatus = "ok" /\ secondBody.kind = "html" /\ HtmlWorks = <<>>

\* C5: in every revision a fetch that succeeds and parses to zero records
\* ends with the empty-state message, not with the error message.
C5_EmptyShowsNoPublications ==
    (papersPc = "done" /\ EmptyParsedResult)
        => (Len(papersContainer) = 1 /\ papersContainer[1].kind = "empty")

(***************************************************************************)
(* Properties of the page load as a whole.                                 *)
(***************************************************************************)
RepoRenderThrows ==
    repoBody.kind = "object" \/ (repoBody.kind = "array" /\ RenderRepos(repoBody, repoBody.items).threw)

\* A failure inside fetchRepos: rejected fetch, non-2xx status, unparsable
\* body, exception while rendering.
RepoFailed ==
    \/ repoStatus \in {"networkError", "non2xx"}
    \/ repoBody.kind = "unparsable"
    \/ RepoRenderThrows

\* A failure of the last attempt of fetchOrcidWorks.
PapersFailed ==
    CASE variant = "xml" ->
            firstStatus # "ok" \/ firstBody.kind \in {"aborted", "malformed"}
      [] variant = "api" ->
            \/ firstStatus # "ok"
            \/ firstBody.kind = "unparsable"
            \/ (firstBody.kind = "data" /\ MapGroups(firstBody.groups, FALSE).threw)
      [] OTHER ->
            /\ papersRequests = 2
            /\ \/ secondStatus # "ok"
               \/ secondBody.kind = "aborted"
               \/ ParsedDataThrows(HtmlWorks)

\* C6: every failure inside a loader ends in a message in that loader's own
\* container.
C6_FailuresEndInMessage ==
    /\ (repoPc = "done" /\ RepoFailed) => IsSingleMessage(repoContainer)
    /\ (papersPc = "done" /\ PapersFailed) => IsSingleMessage(papersContainer)

\* What the repository response alone determines for the repo container.
RepoFinalContents(status, body) ==
    IF status = "networkError" \/ body.kind # "array" \/ RenderRepos(body, body.items).threw
    THEN {<<RepoErrorNode>>}
    ELSE {AppendCards(sorted).cards : sorted \in SortResults(body.items)}

\* What the publication responses alone determine for the papers container.
PapersFinalContent(v, s1, b1, s2, b2) ==
    CASE v = "xml" ->
            IF s1 = "ok" THEN XmlResult(b1) ELSE <<PapersError(XmlStatusMessage(s1))>>
      [] v = "api" ->
            IF s1 = "ok" THEN ApiOnlyResult(b1).content
            ELSE <<PapersError(ApiStatusMessage(s1))>>
      [] OTHER ->
            IF s1 = "ok" /\ ChainApiResult(b1).rendered THEN ChainApiResult(b1).content
            ELSE IF s2 = "ok" THEN ChainHtmlResult(b2)
            ELSE <<ChainError(HtmlStatusMessage(s2))>>

\* C7: in every interleaving each container holds what its own loader's
\* responses determine: the loading placeholder until that loader ends, then
\* a content that is a function of that loader's responses only.
C7_LoadersIndependent ==
    /\ repoPc \in {"fetching", "reading", "parsed"} => repoContainer = <<RepoLoadingNode>>
    /\ repoPc = "done" => repoContainer \in RepoFinalContents(repoStatus, repoBody)
    /\ papersPc \in {"fetching1", "reading1", "fetching2", "reading2"}
          => papersContainer = <<PapersLoadingNode>>
    /\ papersPc = "done"
          => papersContainer = PapersFinalContent(variant, firstStatus, firstBody,
                                                  secondStatus, secondBody)

\* A loaded repository list beside a failed publication list.
C7_Witness ==
    /\ repoPc = "done"
    /\ repoContainer # <<>>
    /\ AllCards(repoContainer)
    /\ papersPc = "done"
    /\ papersContainer = <<PapersError(NetworkMessage)>>

RepoShowsError == repoContainer = <<RepoErrorNode>>
PapersShowsError == Len(papersContainer) = 1 /\ papersContainer[1].kind = "error"

\* C8: once a loader shows its error message it issues no further request
\* and its container never changes again.
C8_ErrorsAreTerminal ==
    [][/\ RepoShowsError
          => (repoContainer' = repoContainer /\ repoRequests' = repoRequests)
       /\ PapersShowsError
          => (papersContainer' = papersContainer /\ papersRequests' = papersRequests)]_vars

\* The repository error stayed while the publication loader went on to its
\* own error.
C8_Witness ==
    /\ RepoShowsError
    /\ repoPc = "done"
    /\ PapersShowsError
    /\ papersPc = "done"
    /\ papersRequests = 2

\* The callback of lines 213-217 threw inside createRepoCard after it had
\* appended at least one card.
RepoFailedAfterCards ==
    /\ repoBody.kind = "array"
    /\ ~SortThrows(repoBody.items)
    /\ \E sorted \in SortResults(repoBody.items) :
          RenderRepos(repoBody, sorted).threw /\ RenderRepos(repoBody, sorted).cards # <<>>

\* C9: when rendering fails at the k-th entry, what had been produced for the
\* k-1 entries before it is discarded: the repo container (fetchRepos, whose
\* cards are appended one by one) and the papers container (API-only
\* fetchOrcidWorks) end with the error message alone.
C9_FailureDiscardsPartial ==
    /\ (repoPc = "done" /\ RepoRenderThrows) => repoContainer = <<RepoErrorNode>>
    /\ (papersPc = "done" /\ variant = "api" /\ firstBody.kind = "data"
            /\ MapGroups(firstBody.groups, FALSE).threw)
          => (PapersShowsError /\ Cards(papersContainer) = <<>>)

\* The second work group threw after a card had been produced for the first,
\* and the second repository entry threw in createRepoCard after the card
\* of the first had been appended.
C9_Witness ==
    /\ papersPc = "done"
    /\ variant = "api"
    /\ firstBody.kind = "data"
    /\ MapGroups(firstBody.groups, FALSE).threw
    /\ papersScratch # <<>>
    /\ PapersShowsError
    /\ repoPc = "done"
    /\ RepoFailedAfterCards
    /\ Len(repoBody.items) = 2
    /\ RepoShowsError

\* The state between the two callbacks: the then-callback has thrown and
\* the container holds the cards it had appended.
C9_CardsBeforeCatch ==
    /\ repoPc = "rejected"
    /\ RepoFailedAfterCards
    /\ Cards(repoContainer) # <<>>
(***************************************************************************)
(* Properties of the rendered fields.                                      *)
(***************************************************************************)
\* The identifiers of the only work that was rendered, as {type, value}
\* strings (an absent value reads as the empty string).
WorkIds ==
    IF firstBody.kind = "xml" THEN XmlExternalIds(firstBody.works[1].ids)
    ELSE LET ids == firstBody.groups[1].summaries[1].ids
         IN [i \in 1..Len(ids) |->
                [type |-> Text(ids[i].type),
                 value |-> IF ids[i].value.t = "string" THEN ids[i].value.v ELSE ""]]

\* An entry that carries a DOI, resp. a URL, under the type tag the revision
\* in use reads ('DOI'/'URL' in the chained revision, 'doi' and any-case 'url'
\* in the XML revision, any case in the API-only revision), with a value.
IsDoiEntry(id) ==
    /\ id.value # ""
    /\ CASE variant = "chain" -> id.type = "DOI"
         [] variant = "xml" -> id.type = "doi"
         [] OTHER -> ToLowerCase(id.type) = "doi"

IsUrlEntry(id) ==
    /\ id.value # ""
    /\ CASE variant = "chain" -> id.type = "URL"
         [] OTHER -> ToLowerCase(id.type) = "url"

\* The loader of the revision in use has finished on a successful response
\* that holds one work.
OneWorkRendered ==
    /\ papersPc = "done"
    /\ firstStatus = "ok"
    /\ \/ (variant = "xml" /\ firstBody.kind = "xml" /\ Len(firstBody.works) = 1)
       \/ (variant # "xml" /\ firstBody.kind = "data")

\* C10: in every revision that reads external identifiers, when the
\* identifiers of a work hold both a DOI entry and a URL entry, in either
\* order, the page load ends with the card of that work and the card links
\* to https://doi.org/<doi value>.
C10_DoiPreferred ==
    (/\ OneWorkRendered
     /\ \E i \in 1..Len(WorkIds) : IsDoiEntry(WorkIds[i])
     /\ \E j \in 1..Len(WorkIds) : IsUrlEntry(WorkIds[j]))
        => /\ Len(papersContainer) = 1
           /\ IsCard(papersContainer[1])
           /\ papersContainer[1].url \in
                 {DoiUrl(WorkIds[i].value) :
                     i \in {k \in 1..Len(WorkIds) : IsDoiEntry(WorkIds[k])}}

\* The same property of the chained revision alone.
C10_ChainedDoiPreferred == (variant = "chain") => C10_DoiPreferred

\* The same property of the API-only revision over identifiers whose types
\* are all strings.
C10_ApiStringTypesDoiPreferred ==
    (/\ variant = "api"
     /\ firstBody.kind = "data"
     /\ \A i \in 1..Len(firstBody.groups[1].summaries[1].ids) :
           firstBody.groups[1].summaries[1].ids[i].type.t = "string")
        => C10_DoiPreferred

(***************************************************************************)
(* Properties of the rendered fields.                                      *)
(***************************************************************************)
\* The first response was a success whose body holds exactly one work.
OneWorkFetched ==
    /\ papersPc = "done"
    /\ firstStatus = "ok"
    /\ \/ (variant = "xml" /\ firstBody.kind = "xml" /\ Len(firstBody.works) = 1)
       \/ (variant # "xml" /\ firstBody.kind = "data" /\ Len(firstBody.groups) = 1
              /\ firstBody.groups[1] # Null /\ Len(firstBody.groups[1].summaries) = 1)

\* The title and the date of that work, as the source supplied them.
SourceWork ==
    IF variant = "xml" THEN firstBody.works[1] ELSE firstBody.groups[1].summaries[1]

\* The date the properties expect: the year, then the month and the day as two
\* digits, the parts that are present joined by '-'.
Pad2(s) == IF Len(s) = 1 THEN "0" \o s ELSE s
Dash(a, b) == IF a = "" THEN b ELSE IF b = "" THEN a ELSE a \o "-" \o b
PartText(p) == IF p.t = "string" THEN p.v ELSE ""
ExpectedDate(date) ==
    LET m == PartText(date.month)
        d == PartText(date.day)
    IN Dash(Dash(PartText(date.year), IF m = "" THEN "" ELSE Pad2(m)),
            IF d = "" THEN "" ELSE Pad2(d))

SuppliedDate ==
    /\ SourceWork.date # Missing
    /\ SourceWork.date.month.t # "number"
    /\ SourceWork.date.day.t # "number"

\* C11: a work whose date parts are strings is rendered with the date
\* YYYY, YYYY-MM or YYYY-MM-DD, the month and the day as two digits, in the
\* JSON revisions and in the XML revision.
C11_DatesRendered ==
    (OneWorkFetched /\ SuppliedDate)
        => /\ Len(papersContainer) = 1
           /\ IsCard(papersContainer[1])
           /\ papersContainer[1].details = ExpectedDate(SourceWork.date)

\* The same property of the two JSON revisions alone.
C11_JsonDatesRendered == (variant # "xml") => C11_DatesRendered

\* The repository loader rendered a response with one repository object.
OneRepoRendered ==
    /\ repoPc = "done"
    /\ repoBody.kind = "array"
    /\ Len(repoBody.items) = 1
    /\ repoBody.items[1] # Null
    /\ ~RepoCardThrows(repoBody.items[1])

\* What a card shows for an optional field of the repository it renders.
ShowsFallback(field, shown, fallback) ==
    /\ shown \notin {"", "null", "undefined"}
    /\ (field \in {Null, Missing}) => shown = fallback

\* C12: a repository whose description (language) is null or missing is
\* rendered with 'No description provided' ('Not specified'); the field is
\* never rendered empty or as the text null or undefined.
C12_FallbackTexts ==
    OneRepoRendered
        => /\ Len(repoContainer) = 1
           /\ IsCard(repoContainer[1])
           /\ ShowsFallback(repoBody.items[1].description,
                            repoContainer[1].description, "No description provided")
           /\ ShowsFallback(repoBody.items[1].language,
                            repoContainer[1].language, "Not specified")

C12_Witness ==
    /\ OneRepoRendered
    /\ repoBody.items[1].description = Null
    /\ repoBody.items[1].language = Missing
    /\ repoContainer[1].description = "No description provided"
    /\ repoContainer[1].language = "Not specified"

(***************************************************************************)
(* Failure classes of the XML revision.                                    *)
(***************************************************************************)
\* The failure class of a run of the XML revision, from its response.
XmlFailureClass(status, body) ==
    CASE status = "404" -> "notFound"
      [] status \in {"401", "403"} -> "denied"
      [] status \notin {"ok", "networkError", "none"} -> "otherStatus"
      [] status = "ok" /\ body.kind = "malformed" -> "unparsable"
      [] status = "ok" /\ body.kind = "xml" /\ body.works = <<>> -> "noWorks"
      [] OTHER -> "none"

\* What a run of the XML revision leaves in the container.
XmlFinalContent(status, body) ==
    IF status # "ok" THEN <<PapersError(XmlStatusMessage(status))>> ELSE XmlResult(body)

XmlRuns ==
    {<<o, NoBody>> : o \in PubOutcomes \ {"ok"}}
        \cup {<<"ok", b>> : b \in XmlBodies(MaxGroups)}

HasErrorPrefix(text) ==
    Len(text) > 28 /\ SubSeq(text, 1, 28) = "Error loading publications: "

\* C13: in the XML revision every failure class (404, 401/403, other non-2xx,
\* unparsable XML, no work in the record) ends with exactly one error node,
\* 'Error loading publications: <message>', with no card, and the text differs
\* from that of every run of another failure class.
C13_XmlFailureMessages ==
    (/\ variant = "xml"
     /\ papersPc = "done"
     /\ XmlFailureClass(firstStatus, firstBody) # "none")
        => /\ Len(papersContainer) = 1
           /\ papersContainer[1].kind = "error"
           /\ HasErrorPrefix(papersContainer[1].text)
           /\ \A r \in XmlRuns :
                 XmlFailureClass(r[1], r[2])
                        \notin {"none", XmlFailureClass(firstStatus, firstBody)}
                    => XmlFinalContent(r[1], r[2]) # papersContainer

C13_Witness ==
    /\ variant = "xml"
    /\ papersPc = "done"
    /\ XmlFailureClass(firstStatus, firstBody) = "denied"
    /\ papersContainer = <<PapersError("Access to ORCID public record XML denied (Profile is private or restricted).")>>

\* The title the source supplied is missing or empty.
NoTitle(title) == title \in {Missing, Null, Str("")}

\* The 'Untitled' text of the renderer that produced the cards.
UntitledText ==
    CASE variant = "xml" -> "Untitled Work (XML)"
      [] variant = "api" -> "Untitled"
      [] secondStatus = "ok" -> "Untitled Work (JSON-LD)"
      [] OTHER -> "Untitled Work (API)"

\* The profile page was read and holds exactly one JSON-LD work.
OneLdWorkFetched ==
    /\ papersPc = "done"
    /\ secondStatus = "ok"
    /\ secondBody.kind = "html"
    /\ Len(secondBody.blocks) = 1
    /\ secondBody.blocks[1].kind = "object"

\* C14: every publication card has a non-empty title, and a work whose title
\* is missing or empty is rendered with the 'Untitled ...' text of its
\* renderer, in every revision.
C14_TitlesNeverEmpty ==
    /\ \A i \in 1..Len(papersContainer) :
          IsCard(papersContainer[i]) => papersContainer[i].title # ""
    /\ (OneWorkFetched /\ NoTitle(SourceWork.title)
            /\ (SourceWork.date = Missing \/ SuppliedDate))
          => /\ Len(papersContainer) = 1
             /\ IsCard(papersContainer[1])
             /\ papersContainer[1].title = UntitledText
    /\ (OneLdWorkFetched /\ NoTitle(secondBody.blocks[1].item.name))
          => /\ Len(papersContainer) = 1
             /\ IsCard(papersContainer[1])
             /\ papersContainer[1].title = UntitledText

\* The same property of the JSON API and JSON-LD renderers alone.
C14_JsonTitlesNeverEmpty == (variant # "xml") => C14_TitlesNeverEmpty

(***************************************************************************)
(* Cards and requests of the repository loader.                            *)
(***************************************************************************)
\* A 2xx response whose body is an array of repository objects.
RepoSuccess ==
    /\ repoStatus = "ok"
    /\ repoBody.kind = "array"
    /\ \A i \in 1..Len(repoBody.items) :
          repoBody.items[i] # Null /\ ~RepoCardThrows(repoBody.items[i])

\* The nodes are the cards of the entries, one for one, in some order.
OneCardPerEntry(nodes, items) ==
    /\ Len(nodes) = Len(items)
    /\ \E p \in [1..Len(items) -> 1..Len(items)] :
          /\ \A i, j \in 1..Len(items) : p[i] = p[j] => i = j
          /\ \A i \in 1..Len(items) : nodes[i] = RepoCard(items[p[i]])

\* C15: after a successful response the repo container holds exactly one card
\* per entry of the array and nothing else (an empty array leaves it empty),
\* and the loader has issued exactly one request.
C15_OneCardPerEntry ==
    /\ repoRequests = (IF repoPc = "idle" THEN 0 ELSE 1)
    /\ (repoPc = "done" /\ RepoSuccess)
          => OneCardPerEntry(repoContainer, repoBody.items)

C15_Witness ==
    /\ repoPc = "done"
    /\ RepoSuccess
    /\ Len(repoBody.items) = 2
    /\ IsNaNDate(repoBody.items[1].updated_at)
    /\ Len(repoContainer) = 2
    /\ repoRequests = 1

(***************************************************************************)
(* Empty and summary-less responses of the JSON API.                       *)
(***************************************************************************)
\* The API answered 2xx with a body that holds zero work groups.
EmptyApiSuccess ==
    /\ firstStatus = "ok"
    /\ firstBody.kind = "data"
    /\ firstBody.groups = <<>>

\* C16: after a 2xx API response with zero work groups the chained revision
\* has issued the profile-page request, while the API-only revision has
\* stopped with 'No publications found.' and its single request.
C16_EmptySuccessPolicy ==
    /\ (variant = "chain" /\ EmptyApiSuccess)
          => /\ papersPc \in {"fetching2", "reading2", "done"}
             /\ papersRequests = 2
    /\ (variant = "api" /\ EmptyApiSuccess)
          => /\ papersPc = "done"
             /\ papersRequests = 1
             /\ papersInFlight = 0
             /\ papersContainer = <<Node("empty", "No publications found.")>>

C16_Witness ==
    /\ variant = "chain"
    /\ EmptyApiSuccess
    /\ papersPc = "fetching2"
    /\ papersRequests = 2
    /\ papersContainer = <<PapersLoadingNode>>

(***************************************************************************)
(* The JSON-LD scan of the profile page.                                   *)
(***************************************************************************)
\* The entries of a script block whose @type is a work type.
WorkEntries(block) ==
    CASE block.kind = "array" ->
            SelectSeq(block.items, LAMBDA item : item # Null /\ IsWorkItem(item))
      [] block.kind = "object" ->
            IF IsWorkItem(block.item) THEN <<block.item>> ELSE <<>>
      [] OTHER -> <<>>

\* The work entries of the first block that has any; <<>> when none has.
RECURSIVE FirstWorkEntries(_)
FirstWorkEntries(blocks) ==
    IF blocks = <<>> THEN <<>>
    ELSE IF WorkEntries(blocks[1]) # <<>> THEN WorkEntries(blocks[1])
    ELSE FirstWorkEntries(Tail(blocks))

ProfilePageRead ==
    /\ variant = "chain"
    /\ papersPc = "done"
    /\ secondStatus = "ok"
    /\ secondBody.kind = "html"

\* C17: blocks that are not valid JSON are skipped; the works rendered are the
\* entries with a work @type of the first block that has such an entry; when
\* no block has one the loader renders an error.
C17_FirstBlockWithWorks ==
    ProfilePageRead
        => IF FirstWorkEntries(secondBody.blocks) # <<>>
           THEN papersContainer =
                    [i \in 1..Len(FirstWorkEntries(secondBody.blocks)) |->
                        CardJsonLd(FirstWorkEntries(secondBody.blocks)[i])]
           ELSE Len(papersContainer) = 1 /\ papersContainer[1].kind = "error"

\* The same property of the pages whose array blocks hold no null entry.
C17_WithoutNullEntries ==
    (ProfilePageRead
        /\ \A i \in 1..Len(secondBody.blocks) :
              secondBody.blocks[i].kind = "array"
                 => \A j \in 1..Len(secondBody.blocks[i].items) :
                       secondBody.blocks[i].items[j] # Null)
        => C17_FirstBlockWithWorks

\* The API answered 2xx with at least one group, none of them JSON null.
GroupsFetched ==
    /\ variant \in {"chain", "api"}
    /\ firstStatus = "ok"
    /\ firstBody.kind = "data"
    /\ Len(firstBody.groups) >= 1
    /\ \A i \in 1..Len(firstBody.groups) : firstBody.groups[i] # Null

\* The card of a summary, as the revision in use renders it.
SummaryCard(summary) ==
    IF variant = "chain" THEN CardChained(GroupOf(<<summary>>))
    ELSE CardApiOnly(GroupOf(<<summary>>))

\* One card per group that has a summary, built from its first summary.
RECURSIVE CardsOfFirstSummaries(_)
CardsOfFirstSummaries(groups) ==
    IF groups = <<>> THEN <<>>
    ELSE (IF groups[1].summaries = <<>> THEN <<>>
          ELSE <<SummaryCard(groups[1].summaries[1])>>)
            \o CardsOfFirstSummaries(Tail(groups))

NoSummaryText ==
    IF variant = "chain"
    THEN "No publication summaries found in ORCID profile data after processing (API)."
    ELSE "No displayable publications found."

\* C18: in the JSON revisions each group gives at most one card, built from the
\* first entry of its work-summary list, and a group without a summary gives
\* none; when no group has a summary the container shows the empty-state
\* message; the chained revision then issues no profile-page request.
C18_FirstSummaryPerGroup ==
    GroupsFetched
        => /\ papersPc = "done"
           /\ papersRequests = 1
           /\ secondStatus = "none"
           /\ papersContainer =
                 (IF CardsOfFirstSummaries(firstBody.groups) # <<>>
                  THEN CardsOfFirstSummaries(firstBody.groups)
                  ELSE <<Node("empty", NoSummaryText)>>)

C18_Witness ==
    /\ GroupsFetched
    /\ variant = "chain"
    /\ Len(firstBody.groups) = 2
    /\ firstBody.groups[1].summaries = <<>>
    /\ Len(firstBody.groups[2].summaries) = 2
    /\ Len(papersContainer) = 1
    /\ papersContainer[1].title = "U"

\* No group has a summary: the chained revision shows its empty-state message.
C18_WitnessNoSummary ==
    /\ GroupsFetched
    /\ variant = "chain"
    /\ papersContainer = <<Node("empty", NoSummaryText)>>
    /\ papersRequests = 1

\* The API answered 2xx and rendering its groups raised an exception.
ApiRenderThrew ==
    /\ variant = "chain"
    /\ firstStatus = "ok"
    /\ firstBody.kind = "data"
    /\ firstBody.groups # <<>>
    /\ MapGroups(firstBody.groups, TRUE).threw

\* C19: in the chained revision an exception raised while the API data is
\* rendered leaves the papers container as it was (the loading placeholder)
\* and is followed by the profile-page request, not by an error message.
C19_RenderExceptionFallsBack ==
    ApiRenderThrew
        => /\ papersPc \in {"fetching2", "reading2", "done"}
           /\ papersRequests = 2
           /\ (papersPc \in {"fetching2", "reading2"})
                 => papersContainer = <<PapersLoadingNode>>
           /\ (papersPc = "done") => secondStatus # "none"

C19_Witness ==
    /\ ApiRenderThrew
    /\ Len(firstBody.groups) = 2
    /\ papersScratch # <<>>
    /\ papersPc = "fetching2"
    /\ papersContainer = <<PapersLoadingNode>>
    /\ papersRequests = 2

(***************************************************************************)
(* Shape of the containers.                                                *)
(***************************************************************************)
\* A container holds its initial content, the loading placeholder, a single
\* message, or cards only.
WellShaped(content, loading) ==
    \/ content = InitialContent
    \/ content = <<loading>>
    \/ IsSingleMessage(content)
    \/ AllCards(content)

\* C20: in every state each container holds one of: its initial content, its
\* loading placeholder, a single error or empty-state message, cards only;
\* never cards beside a message or beside the placeholder.
C20_ContainersWellShaped ==
    /\ WellShaped(repoContainer, RepoLoadingNode)
    /\ WellShaped(papersContainer, PapersLoadingNode)

C20_Witness ==
    /\ IsSingleMessage(repoContainer)
    /\ AllCards(papersContainer)
    /\ Len(papersContainer) = 2

(***************************************************************************)
(* Progress of the loaders.                                                *)
(***************************************************************************)
\* A loader waits for a response.
RepoWaiting == repoPc = "fetching"
PapersWaiting == papersPc \in {"fetching1", "fetching2"}

\* A loader has ended: cards, an empty-state message or an error message, and
\* nothing in flight.
RepoFinal ==
    /\ repoPc = "done"
    /\ repoInFlight = 0
    /\ AllCards(repoContainer) \/ IsSingleMessage(repoContainer)

PapersFinal ==
    /\ papersPc = "done"
    /\ papersInFlight = 0
    /\ AllCards(papersContainer) \/ IsSingleMessage(papersContainer)

\* While a loader has issued requests and not ended, a request is in flight
\* or a callback is pending, and until the first response has been handled
\* the container shows the placeholder.
PlaceholderWhileLoading ==
    /\ (repoRequests > 0) => repoContainer # InitialContent
    /\ (papersRequests > 0) => papersContainer # InitialContent
    /\ RepoWaiting => (repoContainer = <<RepoLoadingNode>> /\ repoInFlight = 1)
    /\ PapersWaiting => (papersContainer = <<PapersLoadingNode>> /\ papersInFlight = 1)

\* A waiting loader moves on only when its request settles: nothing else (no
\* timer) ends the wait.
WaitEndsBySettling ==
    /\ (RepoWaiting /\ repoPc' # repoPc) => repoInFlight' = repoInFlight - 1
    /\ (PapersWaiting /\ papersPc' # papersPc)
          => (papersInFlight' = papersInFlight - 1
                \/ (papersPc = "fetching1" /\ papersPc' = "fetching2"
                      /\ firstStatus' \notin {"none", "ok"}))

\* A loader that has ended does nothing more.
FinalIsStable ==
    /\ RepoFinal => (RepoFinal' /\ repoContainer' = repoContainer
                        /\ repoRequests' = repoRequests)
    /\ PapersFinal => (PapersFinal' /\ papersContainer' = papersContainer
                          /\ papersRequests' = papersRequests)

\* C21: each loader shows its placeholder from the moment it issues its first
\* request; when every issued request settles, each loader eventually ends
\* with cards, an empty-state message or an error message, and then stops; a
\* wait ends only by the settling of the request.
C21_LoadersSettle ==
    /\ []PlaceholderWhileLoading
    /\ (repoPc # "idle") ~> RepoFinal
    /\ (papersPc # "idle") ~> PapersFinal
    /\ [][WaitEndsBySettling]_vars
    /\ [][FinalIsStable]_vars

\* Both loaders have ended, the publication loader after two requests.
C21_Witness ==
    /\ RepoFinal
    /\ PapersFinal
    /\ repoRequests = 1
    /\ papersRequests = 2

====
